---- MODULE Spec2Model ----
(***************************************************************************)
(* State-machine model of fetch_supplier_id.py: one run of main            *)
(* (login -> fetch_all_suppliers -> pretty_print_suppliers ->              *)
(* fetch_supplier_id -> logout -> process exit), plus a second             *)
(* specification that applies the pure function fetch_supplier_id to       *)
(* bounded inputs.                                                         *)
(*                                                                         *)
(* Python strings are sequences of one-character strings.  Python values   *)
(* are tagged records; a dict is a function from a set of keys to values.  *)
(* A response body is kept in parsed form (a JSON value, an XML tree, or   *)
(* text that is neither): the library parsers json() and                   *)
(* ElementTree.fromstring succeed exactly on their own kind of body.       *)
(***************************************************************************)
EXTENDS Integers, Sequences, FiniteSets

VARIABLES
    pc,           \* position in main: login, fetch, print, lookup, finally, exit, exited
    token,        \* main.token, the stripped text of the auth response
    requests,     \* the HTTP exchanges made through the session, in order
    response,     \* the response to GET /resto/api/suppliers
    suppliers,    \* main.suppliers, the list fetch_all_suppliers returned
    stdout,       \* what pretty_print_suppliers printed
    search_name,  \* main.search_name
    found,        \* the outcome of fetch_supplier_id (main.found_id)
    exc,          \* the exception propagating out of main, if any
    log,          \* the logging records emitted, in order
    exit_status   \* the process exit status, -1 while the process runs

vars == <<pc, token, requests, response, suppliers, stdout,
          search_name, found, exc, log, exit_status>>

(* ------------------------------ bounds --------------------------------- *)
MaxRecords == 2
MaxFields == 2
MaxStrLen == 2

SeqsUpTo(S, n) == UNION {[1..k -> S] : k \in 0..n}

(* ------------------------------ strings -------------------------------- *)
Chars == {"a", "A", " "}

Strings == SeqsUpTo(Chars, MaxStrLen)

lower(s) == [i \in 1..Len(s) |-> IF s[i] = "A" THEN "a" ELSE s[i]]

RECURSIVE lstrip(_)
lstrip(s) == IF s = <<>> THEN <<>>
             ELSE IF Head(s) = " " THEN lstrip(Tail(s)) ELSE s

RECURSIVE rstrip(_)
rstrip(s) == IF s = <<>> THEN <<>>
             ELSE IF s[Len(s)] = " " THEN rstrip(SubSeq(s, 1, Len(s) - 1)) ELSE s

strip(s) == rstrip(lstrip(s))

(* ------------------------------ values --------------------------------- *)
PyStr(s) == [t |-> "str", s |-> s]
PyNone == [t |-> "none", s |-> <<>>]
PyNum == [t |-> "num", s |-> <<>>]

EmptyDict == [k \in {} |-> PyNone]

DictSet(d, k, v) == [x \in (DOMAIN d) \cup {k} |-> IF x = k THEN v ELSE d[x]]

DictGet(d, k, default) == IF k \in DOMAIN d THEN d[k] ELSE default

PyDict(d) == [t |-> "dict", d |-> d]
PyInt == [t |-> "num", d |-> EmptyDict]

Truthy(v) == v.t = "str" /\ v.s # <<>>

PyToStr(v) == CASE v.t = "str" -> v.s
                [] v.t = "none" -> <<"N", "o", "n", "e">>
                [] OTHER -> <<"0">>

(* --------------------- library parsers (contracts) --------------------- *)
(* A JSON document: t is the type of the top-level value; items are the    *)
(* elements of an array, d the members of an object.                       *)
JsonValue(t, items, d) == [t |-> t, items |-> items, d |-> d]
NoJson == JsonValue("none", <<>>, EmptyDict)

(* An XML element as ElementTree exposes it: tag, text (None when the      *)
(* element has no text) and the immediate children in document order.      *)
Elem(tag, text, children) == [tag |-> tag, text |-> text, children |-> children]
NoXml == Elem("", PyNone, <<>>)

Body(kind, json, xml) == [kind |-> kind, json |-> json, xml |-> xml]
NoBody == Body("none", NoJson, NoXml)

Response(status, body) == [status |-> status, body |-> body]
NoResponse == Response("none", NoBody)

(* response.json(): the parsed value, or ValueError for a non-JSON body *)
response_json(body) ==
    IF body.kind = "json" THEN [ok |-> TRUE, value |-> body.json]
    ELSE [ok |-> FALSE, value |-> NoJson]

(* ElementTree.fromstring(text): the root, or ParseError *)
ElementTree_fromstring(body) ==
    IF body.kind = "xml" THEN [ok |-> TRUE, root |-> body.xml]
    ELSE [ok |-> FALSE, root |-> NoXml]

(* root.findall("employee"): the immediate children with that tag *)
findall(root, tag) == SelectSeq(root.children, LAMBDA c : c.tag = tag)

(* ------------------------- fetch_all_suppliers ------------------------- *)
LogEntry(level, msg) == [level |-> level, msg |-> msg]

(* child.text or "" *)
text_or_empty(text) == IF Truthy(text) THEN text ELSE PyStr(<<>>)

(* for child in emp: emp_data[child.tag] = child.text or "" *)
RECURSIVE emp_data_from(_, _, _)
emp_data_from(emp, i, d) ==
    IF i > Len(emp.children) THEN d
    ELSE emp_data_from(emp, i + 1,
                       DictSet(d, emp.children[i].tag,
                               text_or_empty(emp.children[i].text)))

emp_data_first_wins(emp) ==
    [k \in {emp.children[i].tag : i \in 1..Len(emp.children)} |->
        LET j == CHOOSE j \in 1..Len(emp.children) :
                    /\ emp.children[j].tag = k
                    /\ \A m \in 1..(j - 1) : emp.children[m].tag # k
        IN text_or_empty(emp.children[j].text)]

emp_data(emp) == emp_data_from(emp, 1, EmptyDict)

suppliers_list_of(employees) ==
    [i \in 1..Len(employees) |-> PyDict(emp_data(employees[i]))]

(* lines 86-109: the XML branch, after the root has been parsed *)
parse_xml_root(root) ==
    IF root.tag = "employees"
    THEN [value |-> suppliers_list_of(findall(root, "employee")), logs |-> <<>>]
    ELSE IF root.tag = "employee"
    THEN [value |-> suppliers_list_of(<<root>>), logs |-> <<>>]
    ELSE [value |-> <<>>, logs |-> <<LogEntry("error", "unknown_root")>>]

json_result_wraps_object(v) ==
    IF v.t = "list" THEN v.items
    ELSE IF v.t = "dict" THEN <<PyDict(v.d)>> ELSE <<>>

(* line 72: suppliers if isinstance(suppliers, list) else [] *)
json_result(v) == IF v.t = "list" THEN v.items ELSE <<>>

Outcome(raised, value, logs) == [raised |-> raised, value |-> value, logs |-> logs]

fetch_all_suppliers_raises_on_failure(resp) ==
    IF resp.status # "ok"
    THEN Outcome("RequestException", <<>>, <<>>)
    ELSE LET j == response_json(resp.body) IN
         IF j.ok THEN Outcome("none", json_result(j.value), <<>>)
         ELSE LET x == ElementTree_fromstring(resp.body)
                  w == <<LogEntry("warning", "xml_fallback")>>
              IN IF ~x.ok THEN Outcome("ParseError", <<>>, w)
                 ELSE Outcome("none", parse_xml_root(x.root).value,
                              w \o parse_xml_root(x.root).logs)

(* lines 64-113: the outcome of fetch_all_suppliers for a given response *)
fetch_all_suppliers(resp) ==
    IF resp.status # "ok"
    THEN Outcome("none", <<>>, <<LogEntry("error", "suppliers_error")>>)
    ELSE LET j == response_json(resp.body) IN
         IF j.ok THEN Outcome("none", json_result(j.value), <<>>)
         ELSE LET x == ElementTree_fromstring(resp.body)
                  w == <<LogEntry("warning", "xml_fallback")>>
              IN IF ~x.ok THEN Outcome("ParseError", <<>>, w)
                 ELSE Outcome("none", parse_xml_root(x.root).value,
                              w \o parse_xml_root(x.root).logs)

(* -------------------------- fetch_supplier_id -------------------------- *)
Found(raised, value, at) == [raised |-> raised, value |-> value, at |-> at]
NotCalled == Found("not_called", PyNone, 0)

(* lines 122-126; `at` is the iteration at which the loop was left *)
RECURSIVE lookup_from(_, _, _)
lookup_from(sups, supplier_name, i) ==
    IF i > Len(sups) THEN Found("none", PyNone, 0)
    ELSE IF sups[i].t # "dict" THEN Found("AttributeError", PyNone, i)
    ELSE LET name == DictGet(sups[i].d, "name", PyStr(<<>>)) IN
         IF name.t # "str" THEN Found("AttributeError", PyNone, i)
         ELSE IF lower(strip(name.s)) = lower(supplier_name)
         THEN Found("none", DictGet(sups[i].d, "id", PyNone), i)
         ELSE lookup_from(sups, supplier_name, i + 1)

RECURSIVE lookup_last_from(_, _, _, _)
lookup_last_from(sups, supplier_name, i, best) ==
    IF i > Len(sups) THEN best
    ELSE IF sups[i].t # "dict" THEN Found("AttributeError", PyNone, i)
    ELSE LET name == DictGet(sups[i].d, "name", PyStr(<<>>)) IN
         IF name.t # "str" THEN Found("AttributeError", PyNone, i)
         ELSE IF lower(strip(name.s)) = lower(supplier_name)
         THEN lookup_last_from(sups, supplier_name, i + 1,
                               Found("none", DictGet(sups[i].d, "id", PyNone), i))
         ELSE lookup_last_from(sups, supplier_name, i + 1, best)

fetch_supplier_id_last_match(sups, supplier_name) ==
    lookup_last_from(sups, supplier_name, 1, Found("none", PyNone, 0))

fetch_supplier_id(sups, supplier_name) == lookup_from(sups, supplier_name, 1)

(* ----------------------- pretty_print_suppliers ------------------------ *)
columns == <<"id", "code", "name", "supplier", "deleted">>

(* len(col.upper()) for each column *)
header_len == [id |-> 2, code |-> 4, name |-> 4, supplier |-> 8, deleted |-> 7]

NoOutput == [kind |-> "none", rows |-> <<>>, col_widths |-> <<>>]
EmptyNotice == [kind |-> "empty_notice", rows |-> <<>>, col_widths |-> <<>>]

Max(S) == CHOOSE x \in S : \A y \in S : y <= x

row_of(s) == [i \in 1..Len(columns) |-> PyToStr(DictGet(s.d, columns[i], PyStr(<<>>)))]

table_of(sups) ==
    LET rows == [r \in 1..Len(sups) |-> row_of(sups[r])]
    IN [kind |-> "table", rows |-> rows,
        col_widths |-> [i \in 1..Len(columns) |->
            Max({Len(rows[r][i]) : r \in 1..Len(rows)} \cup {header_len[columns[i]]})]]

pretty_print_always_table(sups) ==
    IF \E i \in 1..Len(sups) : sups[i].t # "dict"
    THEN [raised |-> "AttributeError", out |-> NoOutput]
    ELSE [raised |-> "none", out |-> table_of(sups)]

(* lines 134-177: what is printed, or the exception raised building rows *)
pretty_print_suppliers(sups) ==
    IF sups = <<>> THEN [raised |-> "none", out |-> EmptyNotice]
    ELSE IF \E i \in 1..Len(sups) : sups[i].t # "dict"
    THEN [raised |-> "AttributeError", out |-> NoOutput]
    ELSE [raised |-> "none", out |-> table_of(sups)]

(* ------------------------- login, logout, main ------------------------- *)
(* one HTTP exchange of the session: the endpoint, the key sent, the outcome *)
Req(endpoint, key, status) == [endpoint |-> endpoint, key |-> key, status |-> status]

NoExc == [type |-> "none", where |-> "none"]
Exc(type, where) == [type |-> type, where |-> where]

(* line 191 *)
SEARCH_NAME == <<"A", " ", "a">>

login_returns_empty_token(resp) ==
    IF resp.status = "ok"
    THEN [raised |-> "none", token |-> strip(resp.text),
          logs |-> <<LogEntry("info", "auth_ok")>>]
    ELSE [raised |-> "none", token |-> <<>>,
          logs |-> <<LogEntry("error", "auth_error")>>]

(* lines 24-32: the token, or sys.exit(1) after logging the failure *)
login(resp) ==
    IF resp.status = "ok"
    THEN [raised |-> "none", token |-> strip(resp.text),
          logs |-> <<LogEntry("info", "auth_ok")>>]
    ELSE [raised |-> "SystemExit", token |-> <<>>,
          logs |-> <<LogEntry("error", "auth_error")>>]

(* lines 41-48: logout logs its outcome and never raises *)
logout(resp) ==
    IF resp.status = "transport_error" THEN <<LogEntry("warning", "logout_error")>>
    ELSE IF resp.status = "ok" THEN <<LogEntry("info", "logout_ok")>>
    ELSE <<LogEntry("warning", "logout_status")>>

TryBlockRaise_skips_finally == "exit"

(* lines 183-198: an exception raised inside the try block runs the        *)
(* finally clause before it propagates                                     *)
TryBlockRaise == "finally"

(* ------------------------------- inputs -------------------------------- *)
AuthResponses ==
    {[status |-> "ok", text |-> t] : t \in {<<"k">>, <<" ", "K", " ">>}}
    \cup {[status |-> st, text |-> <<>>] : st \in {"transport_error", "http_error"}}

LogoutResponses == {[status |-> st] : st \in {"ok", "http_error", "transport_error"}}

MatchingName == <<" ", "a", " ", "A">>
OtherName == <<"a">>

JsonIdValues == {PyStr(<<"1">>), PyStr(<<"2">>)}
JsonNameValues == {PyStr(MatchingName), PyStr(OtherName), PyNone}

JsonDicts ==
    {d \in UNION {[K -> JsonIdValues \cup JsonNameValues] : K \in SUBSET {"id", "name"}} :
        /\ "id" \in DOMAIN d => d["id"] \in JsonIdValues
        /\ "name" \in DOMAIN d => d["name"] \in JsonNameValues}

JsonElements == {PyDict(d) : d \in JsonDicts} \cup {PyInt}

JsonBodies ==
    {Body("json", JsonValue("list", xs, EmptyDict), NoXml) :
        xs \in SeqsUpTo(JsonElements, MaxRecords)}
    \cup {Body("json", JsonValue("dict", <<>>, d), NoXml) :
        d \in {EmptyDict, [id |-> PyStr(<<"1">>), name |-> PyStr(MatchingName)]}}
    \cup {Body("json", JsonValue(t, <<>>, EmptyDict), NoXml) :
        t \in {"str", "num", "bool", "none"}}

XmlFields == {Elem("id", PyStr(<<"1">>), <<>>),
              Elem("name", PyNone, <<>>),
              Elem("name", PyStr(MatchingName), <<>>)}

XmlEmployees == {Elem("employee", PyNone, fs) : fs \in SeqsUpTo(XmlFields, MaxFields)}

XmlRoots ==
    {Elem("employees", PyNone, cs) :
        cs \in SeqsUpTo(XmlEmployees \cup {Elem("supplier", PyNone, <<>>)}, MaxRecords)}
    \cup XmlEmployees
    \cup {Elem("suppliers", PyNone, <<e>>) : e \in XmlEmployees}

XmlBodies == {Body("xml", NoJson, r) : r \in XmlRoots}

DirectoryResponses ==
    {Response("ok", b) : b \in JsonBodies \cup XmlBodies \cup {Body("garbage", NoJson, NoXml)}}
    \cup {Response(st, NoBody) : st \in {"transport_error", "http_error"}}

(* ------------------------------ main run ------------------------------- *)
Init ==
    /\ pc = "login"
    /\ token = <<>>
    /\ requests = <<>>
    /\ response = NoResponse
    /\ suppliers = <<>>
    /\ stdout = NoOutput
    /\ search_name = <<>>
    /\ found = NotCalled
    /\ exc = NoExc
    /\ log = <<>>
    /\ exit_status = -1

(* line 182: token = login(session), outside the try block *)
Login ==
    /\ pc = "login"
    /\ \E resp \in AuthResponses :
        /\ requests' = Append(requests, Req("auth", <<>>, resp.status))
        /\ log' = log \o login(resp).logs
        /\ IF login(resp).raised = "none"
           THEN /\ token' = login(resp).token
                /\ pc' = "fetch"
                /\ UNCHANGED <<exc, exit_status>>
           ELSE /\ exc' = Exc("SystemExit", "login")
                /\ exit_status' = 1
                /\ pc' = "exited"
                /\ UNCHANGED token
    /\ UNCHANGED <<response, suppliers, stdout, search_name, found>>

(* line 185 *)
FetchAllSuppliers ==
    /\ pc = "fetch"
    /\ \E resp \in DirectoryResponses :
        LET o == fetch_all_suppliers(resp) IN
        /\ requests' = Append(requests, Req("suppliers", token, resp.status))
        /\ response' = resp
        /\ log' = log \o o.logs
        /\ IF o.raised = "none"
           THEN /\ suppliers' = o.value
                /\ pc' = "print"
                /\ UNCHANGED exc
           ELSE /\ exc' = Exc(o.raised, "fetch_all_suppliers")
                /\ pc' = TryBlockRaise
                /\ UNCHANGED suppliers
    /\ UNCHANGED <<token, stdout, search_name, found, exit_status>>

(* line 188 *)
PrettyPrintSuppliers ==
    /\ pc = "print"
    /\ IF pretty_print_suppliers(suppliers).raised = "none"
       THEN /\ stdout' = pretty_print_suppliers(suppliers).out
            /\ pc' = "lookup"
            /\ UNCHANGED exc
       ELSE /\ exc' = Exc(pretty_print_suppliers(suppliers).raised, "pretty_print_suppliers")
            /\ pc' = TryBlockRaise
            /\ UNCHANGED stdout
    /\ UNCHANGED <<token, requests, response, suppliers, search_name, found,
                   log, exit_status>>

(* lines 191-196 *)
FetchSupplierId ==
    /\ pc = "lookup"
    /\ search_name' = SEARCH_NAME
    /\ found' = fetch_supplier_id(suppliers, SEARCH_NAME)
    /\ IF found'.raised = "none"
       THEN /\ log' = Append(log, IF Truthy(found'.value)
                                  THEN LogEntry("info", "found")
                                  ELSE LogEntry("warning", "not_found"))
            /\ pc' = "finally"
            /\ UNCHANGED exc
       ELSE /\ exc' = Exc(found'.raised, "fetch_supplier_id")
            /\ pc' = TryBlockRaise
            /\ UNCHANGED log
    /\ UNCHANGED <<token, requests, response, suppliers, stdout, exit_status>>

(* line 198 *)
Logout ==
    /\ pc = "finally"
    /\ \E resp \in LogoutResponses :
        /\ requests' = Append(requests, Req("logout", token, resp.status))
        /\ log' = log \o logout(resp)
    /\ pc' = "exit"
    /\ UNCHANGED <<token, response, suppliers, stdout, search_name, found,
                   exc, exit_status>>

(* lines 201-202: main returns, or the pending exception ends the process *)
Exit ==
    /\ pc = "exit"
    /\ exit_status' = IF exc.type = "none" THEN 0 ELSE 1
    /\ pc' = "exited"
    /\ UNCHANGED <<token, requests, response, suppliers, stdout, search_name,
                   found, exc, log>>

Next ==
    \/ Login
    \/ FetchAllSuppliers
    \/ PrettyPrintSuppliers
    \/ FetchSupplierId
    \/ Logout
    \/ Exit

Spec == Init /\ [][Next]_vars

(* ------------- fetch_supplier_id applied to bounded inputs ------------- *)
LookupNameValues ==
    {PyStr(<<" ", "A">>), PyStr(<<"a", "A", " ">>), PyStr(<<" ">>), PyStr(<<"A">>), PyNone}

LookupDicts ==
    {d \in UNION {[K -> JsonIdValues \cup LookupNameValues] : K \in SUBSET {"id", "name"}} :
        /\ "id" \in DOMAIN d => d["id"] \in JsonIdValues
        /\ "name" \in DOMAIN d => d["name"] \in LookupNameValues}

LookupSuppliers == SeqsUpTo({PyDict(d) : d \in LookupDicts} \cup {PyInt}, MaxRecords)

InitLookup ==
    /\ pc = "lookup_call"
    /\ suppliers \in LookupSuppliers
    /\ search_name \in Strings
    /\ token = <<>>
    /\ requests = <<>>
    /\ response = NoResponse
    /\ stdout = NoOutput
    /\ found = NotCalled
    /\ exc = NoExc
    /\ log = <<>>
    /\ exit_status = -1

LookupCall ==
    /\ pc = "lookup_call"
    /\ found' = fetch_supplier_id(suppliers, search_name)
    /\ pc' = "lookup_returned"
    /\ UNCHANGED <<token, requests, response, suppliers, stdout, search_name,
                   exc, log, exit_status>>

NextLookup == LookupCall

SpecLookup == InitLookup /\ [][NextLookup]_vars

(* ------------------------------ properties ----------------------------- *)
RequestsTo(endpoint) == SelectSeq(requests, LAMBDA r : r.endpoint = endpoint)

AuthFailed == requests # <<>> /\ requests[1].status # "ok"
LoginReturned == requests # <<>> /\ requests[1].status = "ok"
DirectoryFailed == response.status \in {"transport_error", "http_error"}
Logged(level, msg) == \E i \in 1..Len(log) : log[i] = LogEntry(level, msg)

(* C1: whenever login returned a token, at most one logout request is ever *)
(* issued, and once the run has ended exactly one has been issued, carrying *)
(* that token, whichever way the try block was left.                       *)
C1_LogoutExactlyOnce ==
    /\ Len(RequestsTo("logout")) <= 1
    /\ (pc = "exited" /\ LoginReturned) =>
          /\ Len(RequestsTo("logout")) = 1
          /\ RequestsTo("logout")[1].key = token
          /\ requests[Len(requests)].endpoint = "logout"

C1_Witness ==
    /\ pc = "exited"
    /\ LoginReturned
    /\ exc.where = "fetch_supplier_id"
    /\ token = <<"K">>
    /\ Len(RequestsTo("logout")) = 1

(* C2: when the authentication request fails, the run has ended with a     *)
(* non-zero exit status, the authentication request is the only request    *)
(* issued, nothing was printed and no lookup was made.                     *)
C2_AuthFailureTerminates ==
    AuthFailed =>
        /\ pc = "exited"
        /\ exit_status > 0
        /\ Len(requests) = 1
        /\ response = NoResponse
        /\ stdout = NoOutput
        /\ found = NotCalled

C2_Witness ==
    /\ AuthFailed
    /\ requests[1].status = "transport_error"
    /\ pc = "exited"
    /\ exit_status = 1

(* C3: every run in which login succeeded ends with exit status 0,         *)
(* whatever the directory response and the logout outcome were.            *)
C3_ExitZeroAfterLogin ==
    (pc = "exited" /\ LoginReturned) => exit_status = 0

(* C4: a directory body that is neither JSON nor XML is logged and treated *)
(* as zero records: no exception is pending, and the run goes on through   *)
(* the empty notice, a not-found lookup and logout.                        *)
C4_MalformedBodyRecoverable ==
    (response.status = "ok" /\ response.body.kind = "garbage") =>
        /\ exc = NoExc
        /\ suppliers = <<>>
        /\ pc = "exited" =>
              /\ stdout = EmptyNotice
              /\ Logged("warning", "not_found")
              /\ Len(RequestsTo("logout")) = 1
              /\ exit_status = 0

(* C5: when the directory request fails (transport error or HTTP error     *)
(* status) fetch_all_suppliers returns the empty list without raising, the *)
(* empty notice is printed, the lookup reports not found and logout is     *)
(* still performed.                                                        *)
C5_DirectoryFailureContinues ==
    DirectoryFailed =>
        /\ exc = NoExc
        /\ suppliers = <<>>
        /\ Logged("error", "suppliers_error")
        /\ pc \in {"print", "lookup", "finally", "exit", "exited"}
        /\ pc # "print" => stdout = EmptyNotice
        /\ pc \in {"finally", "exit", "exited"} =>
              /\ found = Found("none", PyNone, 0)
              /\ Logged("warning", "not_found")
        /\ pc \in {"exit", "exited"} =>
              /\ Len(RequestsTo("logout")) = 1
              /\ RequestsTo("logout")[1].key = token
        /\ pc = "exited" => exit_status = 0

C5_Witness ==
    /\ DirectoryFailed
    /\ response.status = "http_error"
    /\ pc = "exited"
    /\ stdout = EmptyNotice
    /\ Len(RequestsTo("logout")) = 1

(* C7: fetch_supplier_id never raises on a list returned by                *)
(* fetch_all_suppliers.                                                    *)
C7_LookupNeverRaises ==
    found.raised \in {"not_called", "none"}

(* C8: for a body that parses as JSON, fetch_all_suppliers returns the     *)
(* parsed array element for element in the same order, or the empty list   *)
(* for any other top-level value, and the XML branch is not entered.       *)
C8_JsonBody ==
    (response.status = "ok" /\ response.body.kind = "json") =>
        LET v == response.body.json IN
        /\ exc.where # "fetch_all_suppliers"
        /\ ~Logged("warning", "xml_fallback")
        /\ ~Logged("error", "unknown_root")
        /\ v.t = "list" =>
              /\ Len(suppliers) = Len(v.items)
              /\ \A i \in 1..Len(v.items) : suppliers[i] = v.items[i]
        /\ v.t # "list" => suppliers = <<>>

C8_Witness ==
    /\ response.status = "ok"
    /\ response.body.kind = "json"
    /\ response.body.json.t = "list"
    /\ Len(response.body.json.items) = MaxRecords
    /\ response.body.json.items[1] # response.body.json.items[2]
    /\ pc = "print"
    /\ suppliers = response.body.json.items

(* The employee elements the root tag selects, in document order. *)
SelectedEmployees(root) ==
    IF root.tag = "employees"
    THEN SelectSeq(root.children, LAMBDA c : c.tag = "employee")
    ELSE IF root.tag = "employee" THEN <<root>> ELSE <<>>

ChildText(c) == IF c.text.t = "str" THEN c.text.s ELSE <<>>

XmlParsed == response.status = "ok" /\ response.body.kind = "xml"

(* C9 as stated: for a well-formed XML body there is one record per        *)
(* selected employee element, in document order (none for an unknown       *)
(* root), and each record maps EVERY immediate child's tag to that child's *)
(* text, the empty string when it has none.                                *)
C9_EveryChildMapped ==
    XmlParsed =>
        LET emps == SelectedEmployees(response.body.xml) IN
        /\ exc.where # "fetch_all_suppliers"
        /\ Len(suppliers) = Len(emps)
        /\ \A k \in 1..Len(emps) :
              /\ suppliers[k].t = "dict"
              /\ \A j \in 1..Len(emps[k].children) :
                    LET c == emps[k].children[j] IN
                    /\ c.tag \in DOMAIN suppliers[k].d
                    /\ suppliers[k].d[c.tag] = PyStr(ChildText(c))

(* C9 amended: as above, but each record's keys are exactly the tags of    *)
(* the employee's immediate children, and each tag is mapped to the text   *)
(* of the LAST immediate child carrying that tag (the empty string when    *)
(* that child has no text).                                                *)
C9_LastChildMapped ==
    XmlParsed =>
        LET emps == SelectedEmployees(response.body.xml) IN
        /\ exc.where # "fetch_all_suppliers"
        /\ Len(suppliers) = Len(emps)
        /\ \A k \in 1..Len(emps) :
              /\ suppliers[k].t = "dict"
              /\ DOMAIN suppliers[k].d =
                    {emps[k].children[j].tag : j \in 1..Len(emps[k].children)}
              /\ \A j \in 1..Len(emps[k].children) :
                    LET c == emps[k].children[j] IN
                    (\A m \in (j + 1)..Len(emps[k].children) :
                        emps[k].children[m].tag # c.tag)
                    => suppliers[k].d[c.tag] = PyStr(ChildText(c))

C9_Witness ==
    /\ XmlParsed
    /\ pc = "print"
    /\ response.body.xml.tag = "employees"
    /\ Len(suppliers) = MaxRecords
    /\ \E j \in 1..(Len(response.body.xml.children[1].children) - 1) :
          LET cs == response.body.xml.children[1].children IN
          /\ cs[j].tag = "name"
          /\ cs[j + 1].tag = "name"
          /\ ChildText(cs[j]) # ChildText(cs[j + 1])
          /\ suppliers[1].d["name"] = PyStr(ChildText(cs[j + 1]))

(* A record's name as the lookup reads it: the empty string when absent. *)
NameOf(sup) == IF "name" \in DOMAIN sup.d THEN sup.d["name"] ELSE PyStr(<<>>)
IdOf(sup) == IF "id" \in DOMAIN sup.d THEN sup.d["id"] ELSE PyNone
HasTextName(sup) == sup.t = "dict" /\ NameOf(sup).t = "str"

(* the iterations the loop of fetch_supplier_id went through *)
Consulted(i) == found.at = 0 \/ i <= found.at

(* C6: record by record, the lookup treats a record as the match exactly   *)
(* when trim(lower(name)) = trim(lower(query)): whitespace around the      *)
(* query, like whitespace around the name, never prevents a match.         *)
C6_TrimmedOnBothSides ==
    (pc = "lookup_returned" /\ found.raised = "none") =>
        \A i \in 1..Len(suppliers) :
            Consulted(i) =>
                (found.at = i <=>
                    strip(lower(NameOf(suppliers[i]).s)) = strip(lower(search_name)))

(* the records whose trimmed name equals the query, ignoring case *)
MatchingRecords ==
    {i \in 1..Len(suppliers) :
        /\ HasTextName(suppliers[i])
        /\ strip(lower(NameOf(suppliers[i]).s)) = lower(search_name)}

Min(S) == CHOOSE x \in S : \A y \in S : x <= y

(* C10: fetch_supplier_id returns the id of the first record, in sequence  *)
(* order, whose name matches the query (the record's trimmed name equals   *)
(* the query, ignoring case); records after the first match are not        *)
(* consulted, whatever they hold; with no matching record the result is    *)
(* the not-found value.                                                    *)
C10_FirstMatchWins ==
    pc = "lookup_returned" =>
        LET M == MatchingRecords
            unreadable == {i \in 1..Len(suppliers) : ~HasTextName(suppliers[i])}
        IN /\ (M # {} /\ \A b \in unreadable : b > Min(M)) =>
                 found = Found("none", IdOf(suppliers[Min(M)]), Min(M))
           /\ (M = {} /\ unreadable = {}) => found = Found("none", PyNone, 0)
           /\ found.raised = "none" =>
                 \/ M = {} /\ found = Found("none", PyNone, 0)
                 \/ M # {} /\ found = Found("none", IdOf(suppliers[Min(M)]), Min(M))

C10_Witness ==
    /\ pc = "lookup_returned"
    /\ Cardinality(MatchingRecords) >= 2
    /\ found.at = 1
    /\ found.value = PyStr(<<"2">>)
    /\ \E j \in MatchingRecords : IdOf(suppliers[j]) = PyStr(<<"1">>)

====
